---- MODULE Spec2Model ----
(***************************************************************************)
(* Model of untrained/data/combine_and_clean_v2.py: the streaming          *)
(* combine -> clean -> filter pipeline.                                    *)
(*                                                                         *)
(* Text is a sequence of one-character strings.  Three specifications:     *)
(*   Spec        combine_and_clean_files (the whole run over a folder)     *)
(*   SpecClean   clean_text_streaming, one chunk per step                  *)
(*   SpecFilter  process_lines_streaming, one line per step                *)
(***************************************************************************)
EXTENDS Integers, Sequences, FiniteSets

\* ------------------------------------------------------------------ bounds
MaxLen == 5
MaxLines == 4

\* -------------------------------------------------------------- characters
LowerSeq ==
  << "a","b","c","d","e","f","g","h","i","j","k","l","m",
     "n","o","p","q","r","s","t","u","v","w","x","y","z" >>
UpperSeq ==
  << "A","B","C","D","E","F","G","H","I","J","K","L","M",
     "N","O","P","Q","R","S","T","U","V","W","X","Y","Z" >>
Range(f) == { f[i] : i \in DOMAIN f }
Letters == Range(LowerSeq) \cup Range(UpperSeq)
Digits == { "0","1","2","3","4","5","6","7","8","9" }
\* str.isspace() / regex \s, restricted to the characters a model string holds
WhiteSpace == { " ", "\t", "\n", "\r", "\f" }
IsSpace(c) == c \in WhiteSpace
\* regex \w
IsWordChar(c) == c \in Letters \cup Digits \cup { "_" }

\* str.lower() on one character, then on a string
LowerChar(c) ==
  IF \E i \in 1..26 : UpperSeq[i] = c
  THEN LowerSeq[CHOOSE i \in 1..26 : UpperSeq[i] = c]
  ELSE c
lower(s) == [ i \in 1..Len(s) |-> LowerChar(s[i]) ]

\* ------------------------------------------------------- string primitives
RECURSIVE SplitFrom(_, _)
SplitFrom(s, cur) ==
  IF s = << >>
  THEN IF cur = << >> THEN << >> ELSE << cur >>
  ELSE IF IsSpace(Head(s))
       THEN IF cur = << >>
            THEN SplitFrom(Tail(s), << >>)
            ELSE << cur >> \o SplitFrom(Tail(s), << >>)
       ELSE SplitFrom(Tail(s), Append(cur, Head(s)))
\* str.split() with no argument: the maximal runs of non-whitespace
split(s) == SplitFrom(s, << >>)

RECURSIVE SplitSepFrom(_, _, _)
SplitSepFrom(s, sep, cur) ==
  IF s = << >> THEN << cur >>
  ELSE IF Head(s) = sep
       THEN << cur >> \o SplitSepFrom(Tail(s), sep, << >>)
       ELSE SplitSepFrom(Tail(s), sep, Append(cur, Head(s)))
\* str.split(sep) for a one-character separator: always at least one piece
split_on(s, sep) == SplitSepFrom(s, sep, << >>)

RECURSIVE join(_, _)
\* sep.join(parts)
join(sep, parts) ==
  IF parts = << >> THEN << >>
  ELSE IF Len(parts) = 1 THEN parts[1]
       ELSE parts[1] \o sep \o join(sep, Tail(parts))

RECURSIVE lstrip(_)
lstrip(s) == IF s # << >> /\ IsSpace(Head(s)) THEN lstrip(Tail(s)) ELSE s
RECURSIVE rstrip(_)
rstrip(s) ==
  IF s # << >> /\ IsSpace(s[Len(s)]) THEN rstrip(SubSeq(s, 1, Len(s) - 1)) ELSE s
\* str.strip()
strip(s) == rstrip(lstrip(s))

\* ------------------------------------------- clean_text_streaming, per chunk
\* metadata_patterns = [ r'\b(gutenberg)\b' ]
gutenberg == << "g","u","t","e","n","b","e","r","g" >>

\* \b at the gap before position i of s (1..Len(s)+1)
WordBoundary(s, i) ==
  LET before == i > 1 /\ IsWordChar(s[i - 1])
      after == i <= Len(s) /\ IsWordChar(s[i])
  IN  before # after

\* the pattern matches at position i: the literal, compared as written
\* (re.sub is called without re.IGNORECASE), between two \b
MetaMatchAt(s, i) ==
  /\ i + Len(gutenberg) - 1 <= Len(s)
  /\ SubSeq(s, i, i + Len(gutenberg) - 1) = gutenberg
  /\ WordBoundary(s, i)
  /\ WordBoundary(s, i + Len(gutenberg))

RECURSIVE RemoveMetaFrom(_, _)
RemoveMetaFrom(s, i) ==
  IF i > Len(s) THEN << >>
  ELSE IF MetaMatchAt(s, i)
       THEN RemoveMetaFrom(s, i + Len(gutenberg))
       ELSE << s[i] >> \o RemoveMetaFrom(s, i + 1)
\* re.sub(pattern, '', chunk)
RemoveMeta(s) == RemoveMetaFrom(s, 1)

\* a character the class [^a-zA-Z\s.,!?\n] does not match, i.e. one kept
IsAllowedDigits(c) ==
  c \in Letters \cup Digits \cup WhiteSpace \cup { ".", ",", "!", "?" }
IsAllowed(c) == c \in Letters \cup WhiteSpace \cup { ".", ",", "!", "?" }
\* re.sub(r'[^a-zA-Z\s.,!?\n]', '', chunk)
KeepAllowed(s) == SelectSeq(s, IsAllowed)

\* the test of the inner loop: skip a token equal to the previous kept one
SameTokenExact(prev_token, token) == token = prev_token
SameToken(prev_token, token) == lower(token) = lower(prev_token)

RECURSIVE DedupFrom(_, _)
\* tokens still to visit, dedup_tokens built so far (prev_token is its last)
DedupFrom(tokens, dedup_tokens) ==
  IF tokens = << >> THEN dedup_tokens
  ELSE IF dedup_tokens # << >>
          /\ SameToken(dedup_tokens[Len(dedup_tokens)], Head(tokens))
       THEN DedupFrom(Tail(tokens), dedup_tokens)
       ELSE DedupFrom(Tail(tokens), Append(dedup_tokens, Head(tokens)))

\* one line of the chunk: ' '.join(dedup_tokens), '' when there are none
DedupLine(line) == join(<< " " >>, DedupFrom(split(line), << >>))

\* lines = cleaned_chunk.split('\n') ... '\n'.join(deduplicated_lines)
DedupWords(s) ==
  LET lines == split_on(s, "\n")
  IN  join(<< "\n" >>, [ i \in 1..Len(lines) |-> DedupLine(lines[i]) ])

RECURSIVE CollapseSpaces(_)
\* re.sub(r' +', ' ', cleaned_chunk)
CollapseSpaces(s) ==
  IF Len(s) < 2 THEN s
  ELSE IF s[1] = " " /\ s[2] = " "
       THEN CollapseSpaces(Tail(s))
       ELSE << s[1] >> \o CollapseSpaces(Tail(s))

\* the body of the while loop, from the chunk read to the chunk written
CleanChunk(chunk) == CollapseSpaces(DedupWords(KeepAllowed(RemoveMeta(chunk))))

Min(a, b) == IF a < b THEN a ELSE b
\* infile.read(chunk_size) at offset pos (0-based count of characters read)
ReadChunk(s, pos, size) == SubSeq(s, pos + 1, Min(Len(s), pos + size))

RECURSIVE CleanFrom(_, _, _)
CleanFrom(s, pos, size) ==
  IF ReadChunk(s, pos, size) = << >> THEN << >>
  ELSE CleanChunk(ReadChunk(s, pos, size)) \o CleanFrom(s, pos + size, size)
\* everything clean_text_streaming writes for the input file s
CleanStream(s, size) == CleanFrom(s, 0, size)

\* chunk_size = 1024 * 1024 in the source; the model runs the same loops
\* with chunk sizes scaled to the bounded streams
ChunkSizes == { 4, 12 }

\* ------------------------------------- process_lines_streaming, per line
\* "for line in infile": the lines of a text file, each with its terminator,
\* the last one without when the file does not end in a line break
FileLines(s) ==
  LET pieces == split_on(s, "\n")
      n == Len(pieces)
      whole == [ i \in 1..(n - 1) |-> pieces[i] \o << "\n" >> ]
  IN  IF pieces[n] = << >> THEN whole ELSE Append(whole, pieces[n])

\* len(words) <= 1
IsSingleWordStrict(words) == Len(words) < 1
IsSingleWord(words) == Len(words) <= 1

\* word_counts[word_lower] for one word of the line
WordCount(words, w) ==
  Cardinality({ i \in 1..Len(words) : lower(words[i]) = lower(w) })
\* max(word_counts.values())
MaxCount(words) ==
  LET counts == { WordCount(words, words[i]) : i \in 1..Len(words) }
  IN  CHOOSE m \in counts : \A k \in counts : k <= m
\* len(words) >= 5 and max_count / len(words) > 0.8
IsSpam(words) ==
  /\ Len(words) >= 5
  /\ 5 * MaxCount(words) > 4 * Len(words)

\* seen_lines.add(line)
AddSeenForgets(seen, line) == seen
AddSeen(seen, line) == seen \cup { line }

\* the locals of process_lines_streaming before the first line
FilterStart ==
  [ seen_lines |-> { }, removed_single_word |-> 0, duplicate_count |-> 0,
    removed_repeats |-> 0, total_lines |-> 0, consecutive_empty |-> 0,
    outfile |-> << >> ]

\* the body of the for loop for one line of the input file
FilterStep(st, raw) ==
  LET st1 == [ st EXCEPT !.total_lines = @ + 1 ]
      line == strip(raw)
      words == split(line)
  IN  IF line = << >>
      THEN [ st1 EXCEPT
               !.consecutive_empty = @ + 1,
               !.outfile = IF st.consecutive_empty + 1 <= 2
                           THEN @ \o << "\n" >> ELSE @ ]
      ELSE LET st2 == [ st1 EXCEPT !.consecutive_empty = 0 ]
           IN  IF IsSingleWord(words)
               THEN [ st2 EXCEPT !.removed_single_word = @ + 1 ]
               ELSE IF IsSpam(words)
               THEN [ st2 EXCEPT !.removed_repeats = @ + 1 ]
               ELSE IF line \in st.seen_lines
               THEN [ st2 EXCEPT !.duplicate_count = @ + 1 ]
               ELSE [ st2 EXCEPT !.seen_lines = AddSeen(@, line),
                                 !.outfile = @ \o line \o << "\n" >> ]

RECURSIVE FilterFrom(_, _)
FilterFrom(st, lines) ==
  IF lines = << >> THEN st
  ELSE FilterFrom(FilterStep(st, Head(lines)), Tail(lines))
\* the locals of process_lines_streaming after the last line of file s
FilterRun(s) == FilterFrom(FilterStart, FileLines(s))

\* ------------------------------------------------------- the source files
\* A file under the folder: its name, what opening and reading it does
\* (status), and what it holds: text for a plain-text file (readable up to
\* bad_at characters when undecodable), the parsed document for a JSON file.
\* JSON values carry their Python type: dict (fields), list (items), str.
JStr(chars) == [ type |-> "str", chars |-> chars ]
JList(items) == [ type |-> "list", items |-> items ]
JDict(fields) == [ type |-> "dict", fields |-> fields ]

hello_world == << "h","e","l","l","o"," ","w","o","r","l","d" >>
foo_bar == << "f","o","o"," ","b","a","r" >>
NN == << "N","N" >>

a_txt ==
  [ name |-> << "a",".","t","x","t" >>, status |-> "ok",
    text |-> hello_world \o << "\n" >>, bad_at |-> 0, data |-> JList(<< >>) ]
b_json ==
  [ name |-> << "b",".","j","s","o","n" >>, status |-> "ok",
    text |-> << >>, bad_at |-> 0,
    data |-> JDict([ body |->
               JList(<< JDict([ text |-> JStr(foo_bar), pos |-> JStr(NN) ]) >>) ]) ]
c_json ==
  [ name |-> << "c",".","j","s","o","n" >>, status |-> "malformed",
    text |-> << >>, bad_at |-> 0, data |-> JList(<< >>) ]
d_txt ==
  [ name |-> << "d",".","t","x","t" >>, status |-> "undecodable",
    text |-> << "a","b"," ","c","d" >>, bad_at |-> 5, data |-> JList(<< >>) ]
e_json ==
  [ name |-> << "e",".","j","s","o","n" >>, status |-> "ok",
    text |-> << >>, bad_at |-> 0,
    data |-> JDict([ body |-> JList(<< JDict([ pos |-> JStr(NN) ]) >>) ]) ]
f_txt ==
  [ name |-> << "f",".","t","x","t" >>, status |-> "unreadable",
    text |-> hello_world, bad_at |-> 0, data |-> JList(<< >>) ]
g_md ==
  [ name |-> << "g",".","m","d" >>, status |-> "ok",
    text |-> hello_world, bad_at |-> 0, data |-> JList(<< >>) ]

Catalog == { a_txt, b_json, c_json, d_txt, e_json, f_txt, g_md }
FileNamed(name) == CHOOSE f \in Catalog : f.name = name

\* code points, as far as the order of the characters of file names goes
CharOrder == << "." >> \o UpperSeq \o << "_" >> \o LowerSeq
Ord(c) == CHOOSE i \in 1..Len(CharOrder) : CharOrder[i] = c

RECURSIVE LexLess(_, _)
\* s < t for two strings
LexLess(s, t) ==
  IF t = << >> THEN FALSE
  ELSE IF s = << >> THEN TRUE
  ELSE IF Head(s) = Head(t) THEN LexLess(Tail(s), Tail(t))
  ELSE Ord(Head(s)) < Ord(Head(t))

RECURSIVE sorted(_)
\* sorted(files) of a collection of distinct paths in one folder
sorted(names) ==
  IF names = { } THEN << >>
  ELSE LET least == CHOOSE n \in names : \A m \in names \ { n } : LexLess(n, m)
       IN  << least >> \o sorted(names \ { least })

EndsWith(s, ext) ==
  Len(s) >= Len(ext) /\ SubSeq(s, Len(s) - Len(ext) + 1, Len(s)) = ext
dot_txt == << ".","t","x","t" >>
dot_json == << ".","j","s","o","n" >>

\* folder.rglob("*.txt") + folder.rglob("*.json"), sorted
find_files_recursive(present) ==
  sorted({ n \in present : EndsWith(n, dot_txt) }
           \cup { n \in present : EndsWith(n, dot_json) })

\* file_path.suffix.lower() == '.json'
IsJsonPath(name) == EndsWith(lower(name), dot_json)

\* texts: the 'text' of each dict of the body that has one, in body order
BodyTextsWithPos(body) ==
  LET has(i) == body[i].type = "dict" /\ "text" \in DOMAIN body[i].fields
      idx == SelectSeq([ i \in 1..Len(body) |-> i ], has)
  IN  [ k \in 1..Len(idx) |->
          body[idx[k]].fields.text.chars \o
            (IF "pos" \in DOMAIN body[idx[k]].fields
             THEN << " " >> \o body[idx[k]].fields.pos.chars ELSE << >>) ]
BodyTexts(body) ==
  LET has(i) == body[i].type = "dict" /\ "text" \in DOMAIN body[i].fields
      idx == SelectSeq([ i \in 1..Len(body) |-> i ], has)
  IN  [ k \in 1..Len(idx) |-> body[idx[k]].fields.text.chars ]

\* the text of a JSON file; '' when open/json.load raises (caught inside)
extract_text_from_json(f) ==
  IF f.status # "ok" THEN << >>
  ELSE IF /\ f.data.type = "dict"
          /\ "body" \in DOMAIN f.data.fields
          /\ f.data.fields.body.type = "list"
       THEN join(<< "\n" >>, BodyTexts(f.data.fields.body.items))
       ELSE << >>

\* response.lower() != 'y' is the cancel test
IsAffirmativeLoose(response) == lower(response) # << "n" >>
IsAffirmative(response) == lower(response) = << "y" >>

\* a file that does not exist / a file holding data
Absent == [ exists |-> FALSE, data |-> << >> ]
Holding(data) == [ exists |-> TRUE, data |-> data ]

\* ------------------------------------------------------------------ state
VARIABLES
  \* clean_text_streaming
  chunk_size,      \* the local chunk_size of the running function
  c_pc,            \* "idle" | "loop" | "done"
  c_infile,        \* content of input_file
  c_pos,           \* characters of input_file read so far
  c_outfile,       \* content written to output_file
  original_chars,
  cleaned_chars,
  c_chunk,         \* the last chunk read
  cleaned_chunk,   \* the last cleaned_chunk written
  \* process_lines_streaming
  f_pc,            \* "idle" | "loop" | "done"
  f_infile,        \* content of input_file
  seen_lines,
  removed_single_word,
  duplicate_count,
  removed_repeats,
  total_lines,     \* also the number of lines of input_file consumed
  consecutive_empty,
  f_outfile,       \* content written to output_file
  \* combine_and_clean_files and combine_files_streaming
  pc,              \* "start" | "scan" | "confirm" | "begin" | "combine" |
                   \* "clean" | "filter" | "done"
  folder_state,    \* what folder_path names: "missing" | "not_dir" | "dir"
  disk,            \* names of the files now under the folder
  disk0,           \* names of the files under the folder when the run began
  all_files,
  response,        \* what input() returned
  temp_dir,        \* the directory of mkdtemp exists
  temp_combined,
  temp_cleaned,
  output_path,
  i,               \* loop index of combine_files_streaming, from 1
  deleted_count,
  total_bytes,
  ret_original_chars,  \* original_chars as returned to combine_and_clean_files
  result           \* "none" | "True" | "False"

cleanVars ==
  << c_pc, c_infile, c_pos, c_outfile, original_chars, cleaned_chars,
     c_chunk, cleaned_chunk >>
filterVars ==
  << f_pc, f_infile, seen_lines, removed_single_word, duplicate_count,
     removed_repeats, total_lines, consecutive_empty, f_outfile >>
pipeVars ==
  << pc, folder_state, disk, disk0, all_files, response, temp_dir,
     temp_combined, temp_cleaned, output_path, i, deleted_count, total_bytes,
     ret_original_chars, result >>
vars == << chunk_size, cleanVars, filterVars, pipeVars >>

SeqsUpTo(S, n) == UNION { [ 1..k -> S ] : k \in 0..n }
NoResponse == << "<none>" >>

FilterIdle ==
  /\ f_pc = "idle" /\ f_infile = << >> /\ seen_lines = { }
  /\ removed_single_word = 0 /\ duplicate_count = 0 /\ removed_repeats = 0
  /\ total_lines = 0 /\ consecutive_empty = 0 /\ f_outfile = << >>

PipeIdle ==
  /\ pc = "idle" /\ folder_state = "missing" /\ disk = { } /\ disk0 = { }
  /\ all_files = << >> /\ response = NoResponse /\ temp_dir = FALSE
  /\ temp_combined = Absent /\ temp_cleaned = Absent /\ output_path = Absent
  /\ i = 0 /\ deleted_count = 0 /\ total_bytes = 0 /\ ret_original_chars = 0
  /\ result = "none"

\* --------------------------------------------------------------- SpecClean
CleanAlphabet == { "a", "A", "b", " ", "\n", "\t", "1" }
Metas ==
  { gutenberg,
    << "G","u","t","e","n","b","e","r","g" >>,
    << "G","U","T","E","N","B","E","R","G" >> }
\* input files: every short string, and the metadata token in context
CleanInputs ==
  SeqsUpTo(CleanAlphabet, MaxLen)
    \cup { pre \o m \o post :
             pre \in SeqsUpTo(CleanAlphabet, 1), m \in Metas,
             post \in SeqsUpTo(CleanAlphabet, 1) }

CleanIdle ==
  /\ c_pc = "idle" /\ c_infile = << >> /\ c_pos = 0 /\ c_outfile = << >>
  /\ original_chars = 0 /\ cleaned_chars = 0
  /\ c_chunk = << >> /\ cleaned_chunk = << >>

InitClean ==
  /\ chunk_size \in ChunkSizes
  /\ c_pc = "loop"
  /\ c_infile \in CleanInputs
  /\ c_pos = 0 /\ c_outfile = << >>
  /\ original_chars = 0 /\ cleaned_chars = 0
  /\ c_chunk = << >> /\ cleaned_chunk = << >>
  /\ FilterIdle /\ PipeIdle

\* one iteration of the while loop that reads a non-empty chunk
CleanStep ==
  /\ c_pc = "loop"
  /\ LET chunk == ReadChunk(c_infile, c_pos, chunk_size)
     IN  /\ chunk # << >>
         /\ c_chunk' = chunk
         /\ c_pos' = c_pos + Len(chunk)
         /\ original_chars' = original_chars + Len(chunk)
         /\ cleaned_chunk' = CleanChunk(chunk)
         /\ cleaned_chars' = cleaned_chars + Len(CleanChunk(chunk))
         /\ c_outfile' = c_outfile \o CleanChunk(chunk)
  /\ UNCHANGED << chunk_size, c_pc, c_infile >>
  /\ UNCHANGED << filterVars, pipeVars >>

\* the read that returns '' : break, files closed, counters returned
CleanEOF ==
  /\ c_pc = "loop"
  /\ ReadChunk(c_infile, c_pos, chunk_size) = << >>
  /\ c_pc' = "done"
  /\ UNCHANGED << chunk_size, c_infile, c_pos, c_outfile, original_chars,
                  cleaned_chars, c_chunk, cleaned_chunk >>
  /\ UNCHANGED << filterVars, pipeVars >>

NextClean == CleanStep \/ CleanEOF

SpecClean == InitClean /\ [][NextClean]_vars

\* -------------------------------------------------------------- SpecFilter
\* lines of a sanitized stream: blank, one word, several words, the same
\* line again with other spacing or case, a dominant word at 5/6 and at 4/5
LineCatalog ==
  { << >>,
    << " " >>,
    << "a" >>,
    << "a", " ", "b" >>,
    << " ", "a", " ", "b" >>,
    << "A", " ", "b" >>,
    << "a"," ","a"," ","a"," ","a"," ","a"," ","b" >>,
    << "a"," ","a"," ","a"," ","a"," ","b" >> }

RECURSIVE Terminated(_)
\* the file made of the given lines, each followed by a line break
Terminated(lines) ==
  IF lines = << >> THEN << >>
  ELSE Head(lines) \o << "\n" >> \o Terminated(Tail(lines))

FilterInputs == { Terminated(ls) : ls \in SeqsUpTo(LineCatalog, MaxLines) }

InitFilter ==
  /\ chunk_size = 0
  /\ f_pc = "loop"
  /\ f_infile \in FilterInputs
  /\ seen_lines = FilterStart.seen_lines
  /\ removed_single_word = FilterStart.removed_single_word
  /\ duplicate_count = FilterStart.duplicate_count
  /\ removed_repeats = FilterStart.removed_repeats
  /\ total_lines = FilterStart.total_lines
  /\ consecutive_empty = FilterStart.consecutive_empty
  /\ f_outfile = FilterStart.outfile
  /\ CleanIdle /\ PipeIdle

\* one iteration of the for loop
FilterLine ==
  /\ f_pc = "loop"
  /\ LET lines == FileLines(f_infile)
         st == [ seen_lines |-> seen_lines,
                 removed_single_word |-> removed_single_word,
                 duplicate_count |-> duplicate_count,
                 removed_repeats |-> removed_repeats,
                 total_lines |-> total_lines,
                 consecutive_empty |-> consecutive_empty,
                 outfile |-> f_outfile ]
         r == FilterStep(st, lines[total_lines + 1])
     IN  /\ total_lines < Len(lines)
         /\ seen_lines' = r.seen_lines
         /\ removed_single_word' = r.removed_single_word
         /\ duplicate_count' = r.duplicate_count
         /\ removed_repeats' = r.removed_repeats
         /\ total_lines' = r.total_lines
         /\ consecutive_empty' = r.consecutive_empty
         /\ f_outfile' = r.outfile
  /\ UNCHANGED << f_pc, f_infile >>
  /\ UNCHANGED << chunk_size, cleanVars, pipeVars >>

\* the input file is exhausted: files closed, counters returned
FilterEOF ==
  /\ f_pc = "loop"
  /\ total_lines = Len(FileLines(f_infile))
  /\ f_pc' = "done"
  /\ UNCHANGED << f_infile, seen_lines, removed_single_word, duplicate_count,
                  removed_repeats, total_lines, consecutive_empty, f_outfile >>
  /\ UNCHANGED << chunk_size, cleanVars, pipeVars >>

NextFilter == FilterLine \/ FilterEOF

SpecFilter == InitFilter /\ [][NextFilter]_vars

\* -------------------------------------------------------------------- Spec
Responses ==
  { << "y" >>, << "Y" >>, << "n" >>, << >>, << "y", "e", "s" >> }

Init ==
  /\ chunk_size \in ChunkSizes
  /\ pc = "start"
  /\ folder_state \in { "missing", "not_dir", "dir" }
  /\ disk \in SUBSET { f.name : f \in Catalog }
  /\ folder_state # "dir" => disk = { }
  /\ disk0 = disk
  /\ all_files = << >> /\ response = NoResponse /\ temp_dir = FALSE
  /\ temp_combined = Absent /\ temp_cleaned = Absent /\ output_path = Absent
  /\ i = 0 /\ deleted_count = 0 /\ total_bytes = 0 /\ ret_original_chars = 0
  /\ result = "none"
  /\ CleanIdle /\ FilterIdle

\* "return <value>" from combine_and_clean_files
Return(value) == pc' = "done" /\ result' = value

\* folder.exists() and folder.is_dir()
CheckFolder ==
  /\ pc = "start"
  /\ IF folder_state = "dir"
     THEN pc' = "scan" /\ UNCHANGED result
     ELSE Return("False")
  /\ UNCHANGED << folder_state, disk, disk0, all_files, response, temp_dir,
                  temp_combined, temp_cleaned, output_path, i, deleted_count,
                  total_bytes, ret_original_chars >>
  /\ UNCHANGED << chunk_size, cleanVars, filterVars >>

\* all_files = find_files_recursive(folder_path); none found ends the run
Scan ==
  /\ pc = "scan"
  /\ all_files' = find_files_recursive(disk)
  /\ IF find_files_recursive(disk) = << >>
     THEN Return("False")
     ELSE pc' = "confirm" /\ UNCHANGED result
  /\ UNCHANGED << folder_state, disk, disk0, response, temp_dir,
                  temp_combined, temp_cleaned, output_path, i, deleted_count,
                  total_bytes, ret_original_chars >>
  /\ UNCHANGED << chunk_size, cleanVars, filterVars >>

\* response = input("Proceed? (y/N): ")
Confirm ==
  /\ pc = "confirm"
  /\ \E r \in Responses :
       /\ response' = r
       /\ IF IsAffirmative(r)
          THEN pc' = "begin" /\ UNCHANGED result
          ELSE Return("False")
  /\ UNCHANGED << folder_state, disk, disk0, all_files, temp_dir,
                  temp_combined, temp_cleaned, output_path, i, deleted_count,
                  total_bytes, ret_original_chars >>
  /\ UNCHANGED << chunk_size, cleanVars, filterVars >>

\* tempfile.mkdtemp(), then combine_files_streaming opens its output file
BeginCombine ==
  /\ pc = "begin"
  /\ temp_dir' = TRUE
  /\ temp_combined' = Holding(<< >>)
  /\ deleted_count' = 0 /\ total_bytes' = 0 /\ i' = 1
  /\ pc' = "combine"
  /\ UNCHANGED << folder_state, disk, disk0, all_files, response,
                  temp_cleaned, output_path, ret_original_chars, result >>
  /\ UNCHANGED << chunk_size, cleanVars, filterVars >>

\* outfile.write(data)
Written(data) == Holding(temp_combined.data \o data)

\* file_path.unlink(); deleted_count += 1
Unlink(name) ==
  /\ disk' = disk \ { name }
  /\ deleted_count' = deleted_count + 1

\* the loop body for a .json path: the extracted text when there is any,
\* then the unlink
CombineJson ==
  /\ pc = "combine" /\ i <= Len(all_files)
  /\ IsJsonPath(all_files[i])
  /\ LET text == extract_text_from_json(FileNamed(all_files[i]))
     IN  IF text # << >>
         THEN /\ total_bytes' = total_bytes + Len(text)
              /\ temp_combined' = Written(text \o << "\n" >>)
         ELSE UNCHANGED << total_bytes, temp_combined >>
  /\ Unlink(all_files[i])
  /\ i' = i + 1
  /\ UNCHANGED << pc, folder_state, disk0, all_files, response, temp_dir,
                  temp_cleaned, output_path, ret_original_chars, result >>
  /\ UNCHANGED << chunk_size, cleanVars, filterVars >>

\* the loop body for a text file read to its end: its chunks, a line break,
\* then the unlink
CombineText ==
  /\ pc = "combine" /\ i <= Len(all_files)
  /\ ~ IsJsonPath(all_files[i])
  /\ FileNamed(all_files[i]).status = "ok"
  /\ LET text == FileNamed(all_files[i]).text
     IN  /\ total_bytes' = total_bytes + Len(text)
         /\ temp_combined' = Written(text \o << "\n" >>)
  /\ Unlink(all_files[i])
  /\ i' = i + 1
  /\ UNCHANGED << pc, folder_state, disk0, all_files, response, temp_dir,
                  temp_cleaned, output_path, ret_original_chars, result >>
  /\ UNCHANGED << chunk_size, cleanVars, filterVars >>

\* the loop body for a text file whose open() or read() raises: the chunks
\* read before the exception are already written, the except clause
\* continues with the next file.  The decoder reads ahead, so the read that
\* raises is the one holding the bad byte or the one before it.
CombineTextFails ==
  /\ pc = "combine" /\ i <= Len(all_files)
  /\ ~ IsJsonPath(all_files[i])
  /\ FileNamed(all_files[i]).status # "ok"
  /\ LET f == FileNamed(all_files[i])
         q == IF f.status = "undecodable" THEN f.bad_at \div chunk_size ELSE 0
     IN  \E k \in { q, IF q > 0 THEN q - 1 ELSE 0 } :
           /\ total_bytes' = total_bytes + k * chunk_size
           /\ temp_combined' = Written(SubSeq(f.text, 1, k * chunk_size))
  /\ i' = i + 1
  /\ UNCHANGED << pc, folder_state, disk, disk0, all_files, response,
                  temp_dir, temp_cleaned, output_path, deleted_count,
                  ret_original_chars, result >>
  /\ UNCHANGED << chunk_size, cleanVars, filterVars >>

\* the for loop is over: return deleted_count, total_bytes
EndCombine ==
  /\ pc = "combine" /\ i > Len(all_files)
  /\ pc' = "clean"
  /\ UNCHANGED << folder_state, disk, disk0, all_files, response, temp_dir,
                  temp_combined, temp_cleaned, output_path, i, deleted_count,
                  total_bytes, ret_original_chars, result >>
  /\ UNCHANGED << chunk_size, cleanVars, filterVars >>

\* STEP 2: clean_text_streaming(temp_combined, temp_cleaned), the statistics
\* (removed_chars / original_chars raises ZeroDivisionError on an empty
\* combined file, which the outer except turns into return False), then
\* temp_combined.unlink()
CleanStage ==
  /\ pc = "clean"
  /\ temp_cleaned' = Holding(CleanStream(temp_combined.data, chunk_size))
  /\ ret_original_chars' = Len(temp_combined.data)
  /\ IF Len(temp_combined.data) = 0
     THEN Return("False") /\ UNCHANGED temp_combined
     ELSE pc' = "filter" /\ temp_combined' = Absent /\ UNCHANGED result
  /\ UNCHANGED << folder_state, disk, disk0, all_files, response, temp_dir,
                  output_path, i, deleted_count, total_bytes >>
  /\ UNCHANGED << chunk_size, cleanVars, filterVars >>

\* STEP 3: process_lines_streaming(temp_cleaned, output_path), then
\* temp_cleaned.unlink(), os.rmdir(temp_dir), return True
FilterStage ==
  /\ pc = "filter"
  /\ output_path' = Holding(FilterRun(temp_cleaned.data).outfile)
  /\ temp_cleaned' = Absent
  /\ temp_dir' = FALSE
  /\ Return("True")
  /\ UNCHANGED << folder_state, disk, disk0, all_files, response,
                  temp_combined, i, deleted_count, total_bytes,
                  ret_original_chars >>
  /\ UNCHANGED << chunk_size, cleanVars, filterVars >>

Next ==
  \/ CheckFolder
  \/ Scan
  \/ Confirm
  \/ BeginCombine
  \/ CombineJson
  \/ CombineText
  \/ CombineTextFails
  \/ EndCombine
  \/ CleanStage
  \/ FilterStage

Spec == Init /\ [][Next]_vars

\* ----------------------------------------------------------------- claims
Yes == { << "y" >>, << "Y" >> }

\* the paths the combine loop has gone through
Consumed == { all_files[j] : j \in 1..(i - 1) }
Failing(name) == FileNamed(name).status # "ok"

\* C1: a source whose read, decode or parse fails is left on disk, is not
\* counted as deleted and adds nothing to the combined stream: the consumed
\* sources still on disk are exactly the failing ones, the deleted count is
\* the number of sources that did not fail, and as long as only failing
\* sources were consumed the combined stream is empty.
C1_FailedSourceKept ==
  pc \in { "combine", "clean" } =>
    /\ \A n \in Consumed : Failing(n) => n \in disk
    /\ deleted_count = Cardinality({ n \in Consumed : ~ Failing(n) })
    /\ (\A n \in Consumed : Failing(n)) => temp_combined.data = << >>

\* C2: once the user has confirmed, a run over a non-empty list of sources
\* ends with success, whatever sources failed softly or held no text.
C2_SoftErrorsNeverAbort ==
  (pc = "done" /\ response \in Yes /\ all_files # << >>) => result = "True"

\* C3: as long as no affirmative response was given, the source files are
\* those the run began with, no temporary directory, intermediate file or
\* output file exists, and a run that ends does so unsuccessfully.
C3_NothingTouchedBeforeConfirmation ==
  response \notin Yes =>
    /\ disk = disk0
    /\ ~ temp_dir
    /\ temp_combined = Absent /\ temp_cleaned = Absent /\ output_path = Absent
    /\ result # "True"
    /\ pc = "done" => result = "False"

\* a run over eligible files that the user declined
C3_Witness ==
  /\ pc = "done" /\ result = "False"
  /\ response = << "n" >>
  /\ all_files # << >> /\ disk = disk0

\* sub occurs in s
Contains(s, sub) ==
  \E k \in 1..(Len(s) - Len(sub) + 1) : SubSeq(s, k, k + Len(sub) - 1) = sub

ScenarioC == disk0 = { a_txt.name, b_json.name } /\ pc = "clean"

\* C4 as stated: in Scenario C the combined stream is "hello world\nfoo bar\n",
\* both sources are deleted and the value of pos is not in the stream.
C4_ScenarioC_AsStated ==
  ScenarioC =>
    /\ temp_combined.data = hello_world \o << "\n" >> \o foo_bar \o << "\n" >>
    /\ disk = { } /\ deleted_count = 2
    /\ ~ Contains(temp_combined.data, NN)

\* C4 amended: in Scenario C the combined stream is "hello world\n\nfoo bar\n"
\* (a.txt as it is, the line break appended after it, then the text of
\* b.json and its line break), both sources are deleted and the value of pos
\* is not in the stream.
C4_ScenarioC ==
  ScenarioC =>
    /\ all_files = << a_txt.name, b_json.name >>
    /\ temp_combined.data =
         hello_world \o << "\n", "\n" >> \o foo_bar \o << "\n" >>
    /\ disk = { } /\ deleted_count = 2
    /\ ~ Contains(temp_combined.data, NN)

C4_Witness == ScenarioC /\ temp_combined.exists /\ i = 3

SanitizedAlphabet == Letters \cup { " ", "\n", ".", ",", "!", "?" }

\* C5: every character the sanitizer has written is a letter, a space, a
\* line break or one of . , ! ? (no digit, no tab).
C5_OnlyAllowedCharacters ==
  \A k \in 1..Len(c_outfile) : c_outfile[k] \in SanitizedAlphabet

\* an input with a tab, a digit and a letter, cleaned to a non-empty output
C5_Witness ==
  /\ c_pc = "done" /\ c_outfile # << >>
  /\ \E k \in 1..Len(c_infile) : c_infile[k] = "\t"
  /\ \E k \in 1..Len(c_infile) : c_infile[k] = "1"

\* no two adjacent whitespace-separated tokens of a line of s are equal
\* case-insensitively
NoAdjacentRepeat(s) ==
  \A line \in Range(split_on(s, "\n")) :
    LET tokens == split(line)
    IN  \A k \in 1..(Len(tokens) - 1) : lower(tokens[k]) # lower(tokens[k + 1])

\* C6 as stated: over a whole stream read in chunks, no line of the output
\* has two adjacent equal tokens, and the duplicate-word step leaves the
\* output as it is.
C6_AsStated ==
  c_pc = "done" =>
    /\ NoAdjacentRepeat(c_outfile)
    /\ DedupWords(c_outfile) = c_outfile

\* C6 amended: no line of a cleaned chunk has two adjacent equal tokens, and
\* the duplicate-word step leaves a cleaned chunk as it is (across two
\* chunks the pieces are written one after the other and nothing is
\* compared).
C6_PerChunk ==
  /\ NoAdjacentRepeat(cleaned_chunk)
  /\ DedupWords(cleaned_chunk) = cleaned_chunk

\* a chunk that held a repeated word and was written with it collapsed
C6_Witness ==
  /\ c_pos > 0 /\ cleaned_chunk # << >>
  /\ ~ NoAdjacentRepeat(c_chunk)

\* the lines of a written file, without their terminators
LinesOf(s) ==
  LET lines == FileLines(s)
  IN  [ k \in 1..Len(lines) |-> SelectSeq(lines[k], LAMBDA c : c # "\n") ]

\* C7 as stated: every line of the final output has at least two words.
C7_AsStated ==
  LET out == LinesOf(f_outfile)
  IN  \A k \in 1..Len(out) : Len(split(out[k])) >= 2

\* C7 amended: every non-empty line of the final output has at least two
\* words (empty lines are passed through).
C7_NonEmptyLinesHaveTwoWords ==
  LET out == LinesOf(f_outfile)
  IN  \A k \in 1..Len(out) : out[k] # << >> => Len(split(out[k])) >= 2

\* a run that dropped a one-word line and kept another line
C7_Witness ==
  /\ f_pc = "done" /\ removed_single_word > 0
  /\ \E line \in Range(LinesOf(f_outfile)) : line # << >>

\* the trimmed lines of the input consumed so far
SeenInput ==
  LET lines == FileLines(f_infile)
  IN  [ k \in 1..total_lines |-> strip(lines[k]) ]
\* the input positions holding a later occurrence of a line of kept
LaterOccurrences(kept) ==
  LET seen == SeenInput
  IN  { k \in 1..total_lines :
          /\ seen[k] \in kept
          /\ \E j \in 1..(k - 1) : seen[j] = seen[k] }

\* C8 as stated: no two lines of the output are equal, and the duplicate
\* counter is the number of later occurrences of the lines in the output.
C8_AsStated ==
  LET out == LinesOf(f_outfile)
  IN  /\ \A j, k \in 1..Len(out) : j # k => out[j] # out[k]
      /\ duplicate_count = Cardinality(LaterOccurrences(Range(out)))

\* C8 amended: no two non-empty lines of the output are equal, and the
\* duplicate counter is the number of later occurrences of the non-empty
\* lines in the output (empty lines are not deduplicated).
C8_FirstOccurrenceOnly ==
  LET out == LinesOf(f_outfile)
  IN  /\ \A j, k \in 1..Len(out) :
           (j # k /\ out[j] # << >>) => out[j] # out[k]
      /\ duplicate_count =
           Cardinality(LaterOccurrences(Range(out) \ { << >> }))

\* a run that dropped a second occurrence of a kept line
C8_Witness == f_pc = "done" /\ duplicate_count > 0 /\ f_outfile # << >>

\* the literal occurs at position k of s between two word boundaries, in
\* any letter case
StandaloneMetaAt(s, k) ==
  /\ k + Len(gutenberg) - 1 <= Len(s)
  /\ lower(SubSeq(s, k, k + Len(gutenberg) - 1)) = gutenberg
  /\ WordBoundary(s, k)
  /\ WordBoundary(s, k + Len(gutenberg))

\* C9: no cleaned chunk holds the standalone word gutenberg in any letter
\* case.
C9_NoStandaloneMeta ==
  \A k \in 1..Len(cleaned_chunk) : ~ StandaloneMetaAt(cleaned_chunk, k)

\* C10: the final output never holds more than two empty lines in a row.
C10_BlankRunCapped ==
  LET out == LinesOf(f_outfile)
  IN  \A k \in 1..(Len(out) - 2) :
        ~ (out[k] = << >> /\ out[k + 1] = << >> /\ out[k + 2] = << >>)

====
